---- MODULE Spec2Model ----
(***************************************************************************)
(* Synchronization engine of the ResearchAssistant frontend                *)
(* (frontend/src/App.jsx): the paper list, the open detail, the foreground *)
(* refresh, the post-upload poll timer and the standing poll effect.       *)
(*                                                                         *)
(* The component is single-threaded: every action below is one synchronous *)
(* segment of a handler (from an event or a resolved await up to the next  *)
(* await), followed by React's re-render and the effects that re-render    *)
(* runs.  An async function keeps the `selected` of the render that        *)
(* created it, so every pending call carries that captured value (sel).    *)
(* The server is an external collaborator: its responses are drawn from    *)
(* small sets.                                                             *)
(***************************************************************************)
EXTENDS Naturals, FiniteSets, Bags

VARIABLES
    papers,      \* useState([])    : set of summaries, one per id
    selected,    \* useState(null)  : the open detail, NoSel for null
    loading,     \* useState(false) : upload in progress
    err,         \* useState("")    : user-visible error message
    deletingId,  \* useState("")    : id being deleted, "" for none
    refreshing,  \* useState(false) : Refresh button state
    file,        \* useState(null)  : TRUE when a file is chosen
    hidden,      \* document.hidden
    reqs,        \* bag of pending refresh() calls
    opens,       \* bag of pending openDetail(id) calls
    del,         \* the pending deletePaper call, NoDel for none
    upload,      \* the pending onUpload call, NoUpload for none
    timers,      \* the setInterval timers created by onUpload, by creation order
    ivs,         \* bag of live standing-poll intervals (captured selected)
    listeners,   \* bag of registered visibilitychange listeners (captured selected)
    cleanup,     \* the cleanup of the standing-poll effect of the last render that ran it
    gone,        \* server: the ids whose DELETE this client has seen succeed
    last         \* history: the last step taken and the refresh calls it issued

vars == <<papers, selected, loading, err, deletingId, refreshing, file, hidden,
          reqs, opens, del, upload, timers, ivs, listeners, cleanup, gone, last>>

----------------------------------------------------------------------------
(* Bounds of the model *)
MaxStamp == 0
MaxInFlight == 2
MaxOpens == 1
MaxUploads == 2
MaxTries == 12
MaxWideStamp == 2

(* Program constant: the attempt cap of the post-upload poll *)
PollCap == 10

Ids == {"A", "B"}
NoId == "none"
Status == {"processing", "ready"}
\* updated_at is optional: 0 stands for an absent (falsy) timestamp
Stamps == 0..MaxStamp

Summary(i, s, u) == [id |-> i, status |-> s, updated_at |-> u]
Records == {Summary(i, s, u) : i \in Ids, s \in Status, u \in Stamps}
NoSel == [id |-> NoId, status |-> "none", updated_at |-> 0]

\* the bodies GET /api/papers can return: at most one summary per id
Lists == UNION {{{Summary(i, f[i][1], f[i][2]) : i \in D} : f \in [D -> Status \X Stamps]}
                 : D \in SUBSET Ids}
\* whether rec is a body GET /api/papers/{id} can return for id i
DetailsOf(i, rec) == rec.id = i

\* the same bodies of a server with one paper whose updated_at can be present:
\* 1..MaxWideStamp are timestamps
WideIds == {"A"}
WideStamps == 0..MaxWideStamp
WideRecords == {Summary(i, s, u) : i \in WideIds, s \in Status, u \in WideStamps}
WideLists == UNION {{{Summary(i, f[i][1], f[i][2]) : i \in D} : f \in [D -> Status \X WideStamps]}
                     : D \in SUBSET WideIds}

IdsOf(items) == {p.id : p \in items}
\* items.find(p => p.id === id), defined when id is in the list
Find(items, i) == CHOOSE p \in items : p.id = i
\* items.some(p => p.status === "processing")
HasProcessing(items) == \E p \in items : p.status = "processing"

\* a comparison of the status alone
Changed_StatusOnly(row, sel) == row.status # sel.status

\* row.status !== selected.status || (row.updated_at && row.updated_at !== selected.updated_at)
Changed(row, sel) ==
    \/ row.status # sel.status
    \/ (row.updated_at # 0 /\ row.updated_at # sel.updated_at)

One(x) == SetToBag({x})

----------------------------------------------------------------------------
(* Pending calls *)

\* a refresh(opts) call suspended at one of its two awaits.  caller is what
\* runs when the call returns: "ui" (mount effect or Refresh button: nothing),
\* "delete" (deletePaper's finally), "sub" (the post-upload interval callback
\* of timer t), "stand" (standing interval or visibility listener: nothing).
\* anyProc is items.some(processing) of the list the call will return, kept
\* for the "sub" caller while the detail re-fetch is pending.  sent is the
\* server's set of deleted ids when the pending request was sent: the server
\* answers a request sent after a deletion without the deleted paper.
Req(silent, sel, caller, t) ==
    [silent |-> silent, sel |-> sel, phase |-> "list", caller |-> caller,
     t |-> t, anyProc |-> FALSE, sent |-> gone]

\* a pending openDetail(id) call
Open(id) == [id |-> id, sent |-> gone]

NoDel == [id |-> "", sel |-> NoSel, phase |-> "none"]
NoUpload == [active |-> FALSE, sel |-> NoSel]
NoTimer == [made |-> FALSE, alive |-> FALSE, tries |-> 0, sel |-> NoSel]
NoCleanup == [active |-> FALSE, sel |-> NoSel]

Step(ev, n) == [ev |-> ev, silentCalls |-> n]
\* history of a step that resumes the pending refresh call r: its mode too
Resumed(ev, r) == [ev |-> ev, silentCalls |-> 0, silent |-> r.silent]
\* ... and, for a list response, the response body
Listed(r, items) == [ev |-> "ListOk", silentCalls |-> 0, silent |-> r.silent, items |-> items]

----------------------------------------------------------------------------
(* The standing-poll effect, deps [papers]: React runs the previous cleanup *)
(* and then the effect body of the new render (p, s are that render's      *)
(* papers and selected).                                                    *)

\* a cleanup that forgets clearInterval(iv)
ClearedIvs_Kept == ivs

\* clearInterval(iv) of the cleanup
ClearedIvs == IF cleanup.active THEN ivs (-) One(cleanup.sel) ELSE ivs
\* a cleanup that forgets removeEventListener
RemovedListeners_Kept == listeners

\* document.removeEventListener("visibilitychange", onVis) of the cleanup
RemovedListeners == IF cleanup.active THEN listeners (-) One(cleanup.sel) ELSE listeners

\* the effect with deps [] instead of [papers]: it never runs again
StandingEffect_NoDeps(p, s) == UNCHANGED <<ivs, listeners, cleanup>>

\* an effect that registers no listener
Registered_None(s) == EmptyBag

\* document.addEventListener("visibilitychange", onVis)
Registered(s) == One(s)

StandingEffect(p, s) ==
    IF HasProcessing(p)
    THEN /\ ivs' = ClearedIvs (+) One(s)
         /\ listeners' = RemovedListeners (+) Registered(s)
         /\ cleanup' = [active |-> TRUE, sel |-> s]
    ELSE /\ ivs' = ClearedIvs
         /\ listeners' = RemovedListeners
         /\ cleanup' = NoCleanup

----------------------------------------------------------------------------
(* refresh *)

\* a refresh without the finally block
RefreshingAfter_Leak(r) == refreshing

\* what runs when a refresh call returns: its finally block, then its caller
RefreshingAfter(r) == IF r.silent THEN refreshing ELSE FALSE
\* deletePaper's finally, after `await refresh()`
DeletingIdAfter(r) == IF r.caller = "delete" THEN "" ELSE deletingId
DelAfter(r) == IF r.caller = "delete" THEN NoDel ELSE del
\* if (!anyProcessing || tries > 10) clearInterval(t)
StopsTimer(anyProcessing, tries) == ~anyProcessing \/ tries > PollCap
TimersAfter(r, anyProcessing) ==
    IF r.caller = "sub" /\ StopsTimer(anyProcessing, timers[r.t].tries)
    THEN [timers EXCEPT ![r.t].alive = FALSE]
    ELSE timers

\* the value the open detail takes when a list response is applied by a call
\* whose closure holds sel (lines 25-41): cleared when sel's id is missing
SelectedAfterList(sel, items) ==
    IF sel.id # NoId /\ sel.id \notin IdsOf(items) THEN NoSel ELSE selected
\* whether that call goes on to re-fetch the detail (lines 27-33)
Refetches(sel, items) ==
    /\ sel.id # NoId
    /\ sel.id \in IdsOf(items)
    /\ Changed(Find(items, sel.id), sel)

\* a response merged into the list that is shown
PapersAfter_Merge(items) == papers \cup items

\* setPapers(items)
PapersAfter(items) == items

\* GET /api/papers resolved with items
ListOk(r, items) ==
    /\ BagIn(r, reqs) /\ r.phase = "list"
    /\ IdsOf(items) \cap r.sent = {}
    /\ papers' = PapersAfter(items)
    /\ IF Refetches(r.sel, items)
       THEN /\ reqs' = (reqs (-) One(r)) (+)
                       One([r EXCEPT !.phase = "detail", !.sent = gone,
                                     !.anyProc = (r.caller = "sub" /\ HasProcessing(items))])
            /\ selected' = selected
            /\ UNCHANGED <<refreshing, deletingId, del, timers>>
       ELSE /\ reqs' = reqs (-) One(r)
            /\ selected' = SelectedAfterList(r.sel, items)
            /\ refreshing' = RefreshingAfter(r)
            /\ deletingId' = DeletingIdAfter(r)
            /\ del' = DelAfter(r)
            /\ timers' = TimersAfter(r, HasProcessing(items))
    /\ StandingEffect(items, selected')
    /\ last' = Listed(r, items)
    /\ UNCHANGED <<gone, loading, err, file, hidden, opens, upload>>

\* a catch that surfaces the error in silent mode too
ErrAfterListFail_Always(r) == "Failed to load"

\* if (!silent) setErr(e?.message || "Failed to load")
ErrAfterListFail(r) == IF r.silent THEN err ELSE "Failed to load"

\* GET /api/papers failed: catch, return [], finally
ListFail(r) ==
    /\ BagIn(r, reqs) /\ r.phase = "list"
    /\ reqs' = reqs (-) One(r)
    /\ err' = ErrAfterListFail(r)
    /\ refreshing' = RefreshingAfter(r)
    /\ deletingId' = DeletingIdAfter(r)
    /\ del' = DelAfter(r)
    /\ timers' = TimersAfter(r, HasProcessing({}))
    /\ last' = Resumed("ListFail", r)
    /\ UNCHANGED <<gone, papers, selected, loading, file, hidden, opens, upload,
                   ivs, listeners, cleanup>>

\* the detail re-fetch of refresh resolved with rec: setSelected(r2.data)
DetailOk(r, rec) ==
    /\ BagIn(r, reqs) /\ r.phase = "detail"
    /\ DetailsOf(r.sel.id, rec)
    /\ r.sel.id \notin r.sent
    /\ reqs' = reqs (-) One(r)
    /\ selected' = rec
    /\ refreshing' = RefreshingAfter(r)
    /\ deletingId' = DeletingIdAfter(r)
    /\ del' = DelAfter(r)
    /\ timers' = TimersAfter(r, r.anyProc)
    /\ last' = Resumed("DetailOk", r)
    /\ UNCHANGED <<gone, papers, loading, err, file, hidden, opens, upload,
                   ivs, listeners, cleanup>>

\* the detail re-fetch of refresh failed: the inner catch ignores it
DetailFail(r) ==
    /\ BagIn(r, reqs) /\ r.phase = "detail"
    /\ reqs' = reqs (-) One(r)
    /\ refreshing' = RefreshingAfter(r)
    /\ deletingId' = DeletingIdAfter(r)
    /\ del' = DelAfter(r)
    /\ timers' = TimersAfter(r, r.anyProc)
    /\ last' = Resumed("DetailFail", r)
    /\ UNCHANGED <<gone, papers, selected, loading, err, file, hidden, opens, upload,
                   ivs, listeners, cleanup>>

\* the Refresh button (disabled while refreshing): refresh()
RefreshClick ==
    /\ ~refreshing
    /\ BagCardinality(reqs) < MaxInFlight
    /\ refreshing' = TRUE
    /\ reqs' = reqs (+) One(Req(FALSE, selected, "ui", 0))
    /\ last' = Step("RefreshClick", 0)
    /\ UNCHANGED <<gone, papers, selected, loading, err, deletingId, file, hidden,
                   opens, del, upload, timers, ivs, listeners, cleanup>>

----------------------------------------------------------------------------
(* openDetail and close *)

\* a click on a row of the list: openDetail(p.id)
OpenDetail(id) ==
    /\ id \in IdsOf(papers)
    /\ BagCardinality(opens) < MaxOpens
    /\ opens' = opens (+) One(Open(id))
    /\ last' = Step("OpenDetail", 0)
    /\ UNCHANGED <<gone, papers, selected, loading, err, deletingId, refreshing, file,
                   hidden, reqs, del, upload, timers, ivs, listeners, cleanup>>

\* GET /api/papers/{id} of openDetail resolved: setSelected(r.data)
OpenOk(o, rec) ==
    /\ BagIn(o, opens)
    /\ DetailsOf(o.id, rec)
    /\ o.id \notin o.sent
    /\ opens' = opens (-) One(o)
    /\ selected' = rec
    /\ last' = Step("OpenOk", 0)
    /\ UNCHANGED <<gone, papers, loading, err, deletingId, refreshing, file, hidden,
                   reqs, del, upload, timers, ivs, listeners, cleanup>>

\* a catch that also blanks the panel
SelectedAfterOpenFail_Blank == NoSel

\* openDetail's catch does not call setSelected
SelectedAfterOpenFail == selected

\* GET /api/papers/{id} of openDetail failed
OpenFail(o) ==
    /\ BagIn(o, opens)
    /\ opens' = opens (-) One(o)
    /\ err' = "Failed to load paper"
    /\ selected' = SelectedAfterOpenFail
    /\ last' = Step("OpenFail", 0)
    /\ UNCHANGED <<gone, papers, loading, deletingId, refreshing, file, hidden,
                   reqs, del, upload, timers, ivs, listeners, cleanup>>

\* a close that forgets setSelected(null)
SelectedAfterClose_Kept == selected

\* setSelected(null)
SelectedAfterClose == NoSel

\* history: whether a detail was open when the user closed
CloseEvent == IF selected = NoSel THEN "CloseNone" ELSE "Close"

\* Esc, the close button or a click on the backdrop: setSelected(null); with
\* nothing open only Esc is there, and it does nothing
Close ==
    /\ selected' = SelectedAfterClose
    /\ last' = Step(CloseEvent, 0)
    /\ UNCHANGED <<gone, papers, loading, err, deletingId, refreshing, file, hidden,
                   reqs, opens, del, upload, timers, ivs, listeners, cleanup>>

----------------------------------------------------------------------------
(* deletePaper *)

\* the ids a delete button can pass: a row's p.id, or selected?.id of the panel
\* ("" when the panel's record has no id)
DeleteTargets == IdsOf(papers) \cup (IF selected.id # NoId THEN {selected.id} ELSE {})

\* a deletePaper that does not ask for confirmation
Deletes_Unconfirmed(id, yes) == id # ""

\* if (!id) return; ... if (!yes) return;
Deletes(id, yes) == id # "" /\ yes

\* history: what the user did with the delete button
DeleteEvent(id, yes) ==
    IF id = "" THEN "DeleteNoId" ELSE IF yes THEN "DeleteClick" ELSE "DeleteDeclined"

\* a delete button (disabled while deletingId is set), confirmed or not
DeleteClick(id, yes) ==
    /\ deletingId = ""
    /\ id \in DeleteTargets \cup {""}
    /\ IF Deletes(id, yes)
       THEN /\ err' = ""
            /\ deletingId' = id
            /\ del' = [id |-> id, sel |-> selected, phase |-> "delete"]
       ELSE UNCHANGED <<err, deletingId, del>>
    /\ last' = Step(DeleteEvent(id, yes), 0)
    /\ UNCHANGED <<gone, papers, selected, loading, refreshing, file, hidden, reqs,
                   opens, upload, timers, ivs, listeners, cleanup>>

\* if (selected?.id === id) setSelected(null), with the selected of the closure
SelectedAfterDelete == IF del.sel.id = del.id THEN NoSel ELSE selected

\* DELETE resolved: clear the detail, then `await refresh()`
DeleteOk ==
    /\ del.phase = "delete"
    /\ BagCardinality(reqs) < MaxInFlight
    /\ selected' = SelectedAfterDelete
    /\ refreshing' = TRUE
    /\ gone' = gone \cup {del.id}
    /\ reqs' = reqs (+) One([Req(FALSE, del.sel, "delete", 0) EXCEPT !.sent = gone'])
    /\ del' = [del EXCEPT !.phase = "refresh"]
    /\ last' = Step("DeleteOk", 0)
    /\ UNCHANGED <<papers, loading, err, deletingId, file, hidden, opens, upload,
                   timers, ivs, listeners, cleanup>>

\* DELETE failed: catch, finally
DeleteFail ==
    /\ del.phase = "delete"
    /\ err' = "Delete failed"
    /\ deletingId' = ""
    /\ del' = NoDel
    /\ last' = Step("DeleteFail", 0)
    /\ UNCHANGED <<gone, papers, selected, loading, refreshing, file, hidden, reqs,
                   opens, upload, timers, ivs, listeners, cleanup>>

----------------------------------------------------------------------------
(* onUpload and its poll timer *)

\* the file input: setFile(e.target.files?.[0])
ChooseFile ==
    /\ ~file
    /\ file' = TRUE
    /\ last' = Step("ChooseFile", 0)
    /\ UNCHANGED <<gone, papers, selected, loading, err, deletingId, refreshing, hidden,
                   reqs, opens, del, upload, timers, ivs, listeners, cleanup>>

Made == {t \in DOMAIN timers : timers[t].made}

\* an onUpload that posts the form whether or not a file is chosen
Uploads_NoFile == TRUE

\* if (!file) return
Uploads == file

\* history: what the user did with the upload form
UploadEvent == IF file THEN "UploadClick" ELSE "UploadNoFile"

\* onUpload, from the Upload button (disabled while loading) or with no file
\* chosen; a behaviour holds at most n uploads
UploadClick(n) ==
    /\ ~loading
    /\ Uploads => Cardinality(Made) < n
    /\ IF Uploads
       THEN /\ loading' = TRUE
            /\ err' = ""
            /\ upload' = [active |-> TRUE, sel |-> selected]
       ELSE UNCHANGED <<loading, err, upload>>
    /\ last' = Step(UploadEvent, 0)
    /\ UNCHANGED <<gone, papers, selected, deletingId, refreshing, file, hidden, reqs,
                   opens, del, timers, ivs, listeners, cleanup>>

\* let tries = 0; const t = setInterval(...): the next timer, nothing cleared
TimersAfterUpload ==
    [timers EXCEPT ![Cardinality(Made) + 1] =
        [made |-> TRUE, alive |-> TRUE, tries |-> 0, sel |-> upload.sel]]

\* POST /api/upload resolved
UploadOk ==
    /\ upload.active
    /\ file' = FALSE
    /\ timers' = TimersAfterUpload
    /\ loading' = FALSE
    /\ upload' = NoUpload
    /\ last' = Step("UploadOk", 0)
    /\ UNCHANGED <<gone, papers, selected, err, deletingId, refreshing, hidden, reqs,
                   opens, del, ivs, listeners, cleanup>>

\* POST /api/upload failed
UploadFail ==
    /\ upload.active
    /\ err' = "Upload failed"
    /\ loading' = FALSE
    /\ upload' = NoUpload
    /\ last' = Step("UploadFail", 0)
    /\ UNCHANGED <<gone, papers, selected, deletingId, refreshing, file, hidden, reqs,
                   opens, del, timers, ivs, listeners, cleanup>>

\* the interval callback of timer t, up to its await: tries++; refresh({silent: true})
SubTick(t) ==
    /\ timers[t].alive
    /\ timers[t].tries < MaxTries
    /\ BagCardinality(reqs) < MaxInFlight
    /\ timers' = [timers EXCEPT ![t].tries = @ + 1]
    /\ reqs' = reqs (+) One(Req(TRUE, timers[t].sel, "sub", t))
    /\ last' = Step("SubTick", 1)
    /\ UNCHANGED <<gone, papers, selected, loading, err, deletingId, refreshing, file,
                   hidden, opens, del, upload, ivs, listeners, cleanup>>

----------------------------------------------------------------------------
(* standing poll: interval callback and visibility listener *)

\* a callback without the document.hidden test
CallsWhen_Always(h) == 1

\* if (!document.hidden) refresh({ silent: true })
CallsWhen(h) == IF h THEN 0 ELSE 1

\* the callback of a live standing interval
StandTick(s) ==
    /\ BagIn(s, ivs)
    /\ BagCardinality(reqs) + CallsWhen(hidden) <= MaxInFlight
    /\ reqs' = IF CallsWhen(hidden) = 1 THEN reqs (+) One(Req(TRUE, s, "stand", 0)) ELSE reqs
    /\ last' = Step("StandTick", CallsWhen(hidden))
    /\ UNCHANGED <<gone, papers, selected, loading, err, deletingId, refreshing, file,
                   hidden, opens, del, upload, timers, ivs, listeners, cleanup>>

\* the refresh calls of all registered onVis listeners, as a bag of pending calls
ListenerCalls == [r \in {Req(TRUE, s, "stand", 0) : s \in BagToSet(listeners)}
                    |-> listeners[r.sel]]

\* the page is hidden or shown: every registered onVis runs
VisibilityChange ==
    /\ hidden' = ~hidden
    /\ IF CallsWhen(hidden') = 1
       THEN /\ BagCardinality(reqs) + BagCardinality(listeners) <= MaxInFlight
            /\ reqs' = reqs (+) ListenerCalls
            /\ last' = Step("VisibilityChange", BagCardinality(listeners))
       ELSE /\ reqs' = reqs
            /\ last' = Step("VisibilityChange", 0)
    /\ UNCHANGED <<gone, papers, selected, loading, err, deletingId, refreshing, file,
                   opens, del, upload, timers, ivs, listeners, cleanup>>

----------------------------------------------------------------------------
(* After mounting: the first render's effects have run, so refresh() of    *)
(* useEffect(() => { refresh(); }, []) is pending and the standing effect  *)
(* found no processing paper in the empty list.                            *)
Init ==
    /\ papers = {}
    /\ selected = NoSel
    /\ loading = FALSE
    /\ err = ""
    /\ deletingId = ""
    /\ refreshing = TRUE
    /\ file = FALSE
    /\ hidden \in BOOLEAN
    /\ gone = {}
    /\ reqs = One(Req(FALSE, NoSel, "ui", 0))
    /\ opens = EmptyBag
    /\ del = NoDel
    /\ upload = NoUpload
    /\ timers = [t \in 1..MaxUploads |-> NoTimer]
    /\ ivs = EmptyBag
    /\ listeners = EmptyBag
    /\ cleanup = NoCleanup
    /\ last = Step("Init", 0)

InitVisible == Init /\ ~hidden

\* the list, the open detail and the standing interval on a visible page:
\* refresh, open and close with every outcome of their requests
Next ==
    \/ \E r \in BagToSet(reqs), items \in Lists : ListOk(r, items)
    \/ \E r \in BagToSet(reqs) : ListFail(r)
    \/ \E r \in BagToSet(reqs), rec \in Records : DetailOk(r, rec)
    \/ \E r \in BagToSet(reqs) : DetailFail(r)
    \/ RefreshClick
    \/ \E id \in Ids : OpenDetail(id)
    \/ \E o \in BagToSet(opens), rec \in Records : OpenOk(o, rec)
    \/ \E o \in BagToSet(opens) : OpenFail(o)
    \/ Close
    \/ \E s \in BagToSet(ivs) : StandTick(s)

Spec == InitVisible /\ [][Next]_vars

\* deleting papers while the list is refreshed and details are opened; only
\* the DELETE request can fail
NextDelete ==
    \/ \E r \in BagToSet(reqs), items \in Lists : ListOk(r, items)
    \/ \E r \in BagToSet(reqs), rec \in Records : DetailOk(r, rec)
    \/ \E id \in Ids : OpenDetail(id)
    \/ \E o \in BagToSet(opens), rec \in Records : OpenOk(o, rec)
    \/ \E id \in Ids \cup {""}, yes \in BOOLEAN : DeleteClick(id, yes)
    \/ DeleteOk
    \/ DeleteFail
    \/ \E s \in BagToSet(ivs) : StandTick(s)

SpecDelete == InitVisible /\ [][NextDelete]_vars

\* one upload and the two poll loops on a page that is hidden and shown; no
\* detail is ever opened
NextPoll ==
    \/ \E r \in BagToSet(reqs), items \in Lists : ListOk(r, items)
    \/ \E r \in BagToSet(reqs) : ListFail(r)
    \/ RefreshClick
    \/ ChooseFile
    \/ UploadClick(1)
    \/ UploadOk
    \/ UploadFail
    \/ \E t \in 1..MaxUploads : SubTick(t)
    \/ \E s \in BagToSet(ivs) : StandTick(s)
    \/ VisibilityChange

SpecPoll == Init /\ [][NextPoll]_vars

\* repeated uploads on a visible page whose requests all succeed
NextUploads ==
    \/ \E r \in BagToSet(reqs), items \in Lists : ListOk(r, items)
    \/ ChooseFile
    \/ UploadClick(MaxUploads)
    \/ UploadOk
    \/ \E t \in 1..MaxUploads : SubTick(t)

SpecUploads == InitVisible /\ [][NextUploads]_vars

\* the Refresh button and the delete buttons used together, with every outcome
\* of their requests; no detail is ever opened
NextOverlap ==
    \/ \E r \in BagToSet(reqs), items \in Lists : ListOk(r, items)
    \/ \E r \in BagToSet(reqs) : ListFail(r)
    \/ RefreshClick
    \/ \E id \in Ids \cup {""}, yes \in BOOLEAN : DeleteClick(id, yes)
    \/ DeleteOk
    \/ DeleteFail

SpecOverlap == InitVisible /\ [][NextOverlap]_vars

\* refreshing the list while a detail is open, with timestamped records; the
\* requests all succeed or the detail re-fetch fails
NextChanged ==
    \/ \E r \in BagToSet(reqs), items \in WideLists : ListOk(r, items)
    \/ \E r \in BagToSet(reqs), rec \in WideRecords : DetailOk(r, rec)
    \/ \E r \in BagToSet(reqs) : DetailFail(r)
    \/ RefreshClick
    \/ \E id \in WideIds : OpenDetail(id)
    \/ \E o \in BagToSet(opens), rec \in WideRecords : OpenOk(o, rec)

SpecChanged == InitVisible /\ [][NextChanged]_vars

----------------------------------------------------------------------------
(* Properties *)

LiveTimers == {t \in DOMAIN timers : timers[t].alive}
StandingRunning == BagCardinality(ivs) > 0
StandPending == \E r \in BagToSet(reqs) : r.caller = "stand"

\* C1: the result of refresh's detail re-fetch is applied only if the id it
\* was fetched for is the id open when it resolves; otherwise the open detail
\* stays what it was (another paper's record, or absent).
C1_StaleReconciliationGuard ==
    [][last'.ev = "DetailOk" => (selected' = selected \/ selected'.id = selected.id)]_vars

\* C2: the open detail is absent or its id is the id of a summary of the list.
C2_OpenDetailInList == selected.id = NoId \/ selected.id \in IdsOf(papers)

\* C3: a successful delete of the open paper clears the detail, and no detail
\* re-fetch of a refresh that is still pending sets it again to the deleted
\* paper's record while the delete's own refresh runs.
C3_DeletedDetailStaysCleared ==
    [][/\ (last'.ev = "DeleteOk" /\ del.sel.id = del.id) => selected' = NoSel
       /\ (last'.ev = "DetailOk" /\ del.phase = "refresh" /\ del.sel.id = del.id)
             => selected'.id # del.id]_vars

\* C4: the post-upload timer never fires a tick after tick 11 (cap 10 + 1),
\* whatever the latency of its refreshes.
C4_NoTickAfterCap == \A t \in DOMAIN timers : timers[t].tries <= PollCap + 1

\* C5: a failed list fetch stops neither poll loop: a post-upload timer that
\* has not exceeded its cap stays alive, and the standing interval stays.
C5_FailedTickKeepsLoops ==
    [][last'.ev = "ListFail" =>
         /\ \A t \in DOMAIN timers :
                (timers[t].alive /\ timers[t].tries <= PollCap) => timers'[t].alive
         /\ ivs' = ivs]_vars

\* C6: at most one post-upload timer is alive.
C6_OneSubmissionTimer == Cardinality(LiveTimers) <= 1

\* C7: at most one standing interval is alive.
C7_OneStandingTimer == BagCardinality(ivs) <= 1

\* the list was replaced while a refresh issued by an earlier standing
\* interval is pending, and the effect started a new interval
C7_Restarted == last.ev = "ListOk" /\ StandingRunning /\ StandPending

\* C8: the standing interval is alive exactly when the list holds a paper
\* whose status is "processing", so a standing tick fires only then.
C8_StandingIffProcessing ==
    /\ StandingRunning <=> (\E p \in papers : p.status = "processing")
    /\ last.ev = "StandTick" => (\E p \in papers : p.status = "processing")

\* the list was replaced by one with no processing paper after the standing
\* interval had ticked, and the interval is gone
C8_Stopped ==
    /\ last.ev = "ListOk" /\ StandPending
    /\ papers # {} /\ \A p \in papers : p.status = "ready"
    /\ ~StandingRunning

\* C9 as claimed: no step issues refresh({silent: true}) while the page is hidden.
C9_NoSilentCallWhileHidden == last.silentCalls > 0 => ~hidden

\* C9: while the page is hidden, the standing interval's callback and the
\* visibility listener issue no refresh({silent: true}); only the post-upload
\* timer's callback does.
C9_StandingQuietWhileHidden ==
    /\ (hidden /\ last.ev \in {"StandTick", "VisibilityChange"}) => last.silentCalls = 0
    /\ (hidden /\ last.silentCalls > 0) => last.ev = "SubTick"

\* the standing interval elapsed on a hidden page
C9_HiddenTick == last.ev = "StandTick" /\ hidden /\ StandingRunning

\* C10: a visibility change issues exactly one refresh({silent: true}) when
\* the page became visible and the standing interval is alive, and none when
\* the page became hidden or no standing interval is alive.
C10_OneCallOnShow ==
    last.ev = "VisibilityChange" =>
        last.silentCalls = (IF ~hidden /\ StandingRunning THEN 1 ELSE 0)

\* the page was shown while the standing interval was alive
C10_Shown ==
    /\ last.ev = "VisibilityChange" /\ ~hidden /\ StandingRunning
    /\ last.silentCalls = 1 /\ StandPending

\* the pending refresh call that the step removes from reqs
Completes(r) == BagIn(r, reqs) /\ reqs' = reqs (-) One(r)

\* C11: a failed list fetch leaves the list as it was; in silent mode it
\* leaves the error field as it was, in foreground mode it writes a non-empty
\* message to it.
C11_ErrorIsolation ==
    [][last'.ev = "ListFail" =>
         /\ papers' = papers
         /\ \A r \in BagToSet(reqs) :
                Completes(r) => IF r.silent THEN err' = err ELSE err' # ""]_vars

\* a silent refresh failed while a list was held and no error was shown
C11_SilentFailed == last.ev = "ListFail" /\ err = "" /\ papers # {}

NoForeground == \A r \in BagToSet(reqs) : r.silent

\* C12: refreshing is false whenever no foreground refresh is pending, and
\* every foreground refresh that returns (after the list, after a failed list
\* fetch, after the detail re-fetch or its failure) leaves it false.
C12_RefreshingCleared ==
    /\ [](NoForeground => ~refreshing)
    /\ [][\A r \in BagToSet(reqs) : (Completes(r) /\ ~r.silent) => ~refreshing']_vars

\* a foreground refresh returned after its detail re-fetch failed
C12_RefetchFailed ==
    last.ev = "DetailFail" /\ ~last.silent /\ NoForeground /\ ~refreshing

\* the pending openDetail call that the step removes from opens
Answers(o) == BagIn(o, opens) /\ opens' = opens (-) One(o)

\* C13: a failed openDetail writes a non-empty error and leaves the open
\* detail as it was; a successful one makes the fetched record of the
\* requested id the open detail.
C13_OpenKeepsOrReplaces ==
    [][/\ last'.ev = "OpenFail" => (selected' = selected /\ err' # "")
       /\ last'.ev = "OpenOk" =>
            \A o \in BagToSet(opens) : Answers(o) =>
                (selected' \in Records /\ DetailsOf(o.id, selected'))]_vars

\* an openDetail failed while a detail was open
C13_FailedWhileOpen ==
    last.ev = "OpenFail" /\ selected # NoSel /\ err = "Failed to load paper"

\* C14: a successful DELETE of id clears the open detail if the paper open
\* when the response arrives is id, and issues a foreground refresh at once;
\* a failed DELETE writes an error, issues no refresh and leaves the list and
\* the open detail as they were.
C14_DeleteClearsOpen ==
    [][/\ last'.ev = "DeleteOk" =>
            /\ selected.id = del.id => selected' = NoSel
            /\ refreshing' /\ BagCardinality(reqs') = BagCardinality(reqs) + 1
       /\ last'.ev = "DeleteFail" =>
            (err' # "" /\ reqs' = reqs /\ papers' = papers /\ selected' = selected)]_vars

\* C15: a delete with no id, or one whose confirmation is declined, issues no
\* DELETE request and leaves the list, the open detail, the error field and
\* the deleting marker as they were.
C15_DeclinedDeleteIsNoop ==
    [][last'.ev \in {"DeleteNoId", "DeleteDeclined"} =>
         UNCHANGED <<del, gone, papers, selected, err, deletingId, reqs, opens>>]_vars

\* the confirmation was declined while an error was shown and a detail was open
C15_Declined == last.ev = "DeleteDeclined" /\ err # "" /\ selected # NoSel

\* C16: after a close the open detail is absent and the error field is as it
\* was; a close with nothing open changes nothing, so a second close leaves
\* the state of the first.
C16_CloseIdempotent ==
    [][/\ last'.ev \in {"Close", "CloseNone"} => (selected' = NoSel /\ err' = err)
       /\ last'.ev = "CloseNone" =>
            UNCHANGED <<papers, selected, loading, err, deletingId, refreshing, file,
                        hidden, reqs, opens, del, upload, timers, ivs, listeners,
                        cleanup, gone>>]_vars

\* the user closed with nothing open while a list was held
C16_ClosedTwice == last.ev = "CloseNone" /\ selected = NoSel /\ papers # {}

\* C17: a list response applied while a detail is open clears the detail
\* exactly when the id of that detail is missing from the refreshed list.
C17_ClearedIffMissing ==
    [][(last'.ev = "ListOk" /\ selected # NoSel) =>
         (selected' = NoSel <=> selected.id \notin IdsOf(papers'))]_vars

\* the list response of the pending refresh call r is applied by the step
Applies(r) ==
    /\ last'.ev = "ListOk"
    /\ r.phase = "list" /\ BagIn(r, reqs)
    /\ CopiesIn(r, reqs') < CopiesIn(r, reqs)
\* the refresh calls suspended at their detail re-fetch
DetailCalls(rs) ==
    BagCardinality([q \in {x \in BagToSet(rs) : x.phase = "detail"} |-> rs[q]])

C19_RunningSessionKept ==
    [][(last'.ev = "ListOk" /\ StandingRunning /\ HasProcessing(papers')) =>
         ivs' = ivs]_vars

\* C20: every refresh call that gets its list response replaces the whole
\* list with that response, whatever its mode and whichever other calls are
\* pending, so the list is always the response applied last and never a
\* mixture of two; no other step changes the list.
C20_LastResponseWins ==
    [][IF last'.ev = "ListOk" THEN papers' = last'.items ELSE papers' = papers]_vars
\* a response was applied while a call of the other mode is still waiting for
\* its own, and the list now shown is not empty
C20_Overlapping ==
    /\ last.ev = "ListOk" /\ papers # {}
    /\ \E r \in BagToSet(reqs) : r.phase = "list" /\ r.silent # last.silent

\* C21: a post-upload timer is created only by a successful upload, which
\* creates exactly one; an upload attempt with no file chosen sends nothing
\* and creates none; a failed upload creates none, sets a non-empty error and
\* clears the uploading flag.
C21_TimerOnlyOnUploadOk ==
    [][/\ Made' # Made => last'.ev = "UploadOk"
       /\ last'.ev = "UploadOk" =>
            (Cardinality(Made') = Cardinality(Made) + 1 /\ LiveTimers \subseteq LiveTimers')
       /\ last'.ev = "UploadNoFile" =>
            (timers' = timers /\ upload' = upload /\ loading' = loading)
       /\ last'.ev = "UploadFail" =>
            (timers' = timers /\ err' # "" /\ ~loading')]_vars
\* an upload failed before any timer existed
C21_UploadFailed ==
    last.ev = "UploadFail" /\ Made = {} /\ err = "Upload failed" /\ ~loading

\* C22: refreshing is true whenever a foreground refresh call is pending,
\* overlapping ones included, and a step that issues or completes only a
\* silent refresh call leaves refreshing as it was.
C22_RefreshingWhileForeground ==
    /\ [](~NoForeground => refreshing)
    /\ [][(last'.ev \in {"StandTick", "SubTick", "VisibilityChange"}
           \/ \E r \in BagToSet(reqs) : Completes(r) /\ r.silent)
          => refreshing' = refreshing]_vars

\* C23: the visibilitychange listeners registered are exactly those of the
\* live standing intervals (added and removed with them), and there is at
\* most one.
C23_ListenerWithTimer ==
    listeners = ivs /\ BagCardinality(listeners) <= 1
\* a list response applied on a hidden page left the standing loop running
\* with its listener
C23_ListenerRegistered ==
    /\ last.ev = "ListOk" /\ hidden
    /\ BagCardinality(listeners) = 1 /\ cleanup.active
====
